---- MODULE Spec2Model ----
(***************************************************************************)
(* The thread scheduler core of src/threads/thread.c as a state machine.   *)
(*                                                                         *)
(* One CPU.  Code that runs with interrupts disabled is atomic, so every   *)
(* action is one entry point run from its call to the next point at which  *)
(* interrupts are enabled again, context switches included: schedule ()    *)
(* switches to the next thread, which continues from the place it was      *)
(* suspended at (resume) still with interrupts off.                        *)
(*                                                                         *)
(* The kernel state is handled as a record s (one field per variable) so   *)
(* that the C functions compose as operators from state to state.          *)
(***************************************************************************)
EXTENDS Integers, Sequences, FiniteSets, TLC

\* ---- bounds of the model ----
MaxThreads == 4     \* main, idle and the threads created under Spec and SpecLock
MaxSortThreads == 5 \* main, idle and the threads created under SpecSort
NumLocks == 2       \* locks 1..NumLocks
MaxTicks == 4       \* timer ticks modelled in MLFQS mode (recent_cpu grows with them)
MaxRecentCpu == 128 \* integer part of the recent_cpu values tried, either sign
MaxBeyond == 2      \* integers tried beyond the range of the 17.14 format, either side
MaxSeconds == 60    \* seconds of timer ticks under SpecLoad

\* ---- program constants ----
PRI_MIN == 0
PRI_DEFAULT == 31
PRI_MAX == 63
TIME_SLICE == 4
TIMER_FREQ == 100
Q == 14
TID_ERROR == -1
NICE_MIN == -20
NICE_MAX == 20

NULL == 0                           \* the null pointer (no thread, no lock)
initial_thread == 1                 \* allocate_tid () gives main tid 1 in thread_init
idle_thread == 2                    \* thread_start creates the idle thread next
Tids == 1 .. MaxSortThreads
Locks == 1 .. NumLocks
Priorities == {PRI_DEFAULT, PRI_DEFAULT + 1, PRI_MAX}   \* priority arguments tried

VARIABLES
    thread_mlfqs,    \* bool thread_mlfqs
    status,          \* t->status; "NONE" for a tid not created yet
    priority,        \* t->priority (effective)
    base_priority,   \* t->base_priority
    nice,            \* t->nice
    recent_cpu,      \* t->recent_cpu (17.14 fixed point)
    required_lock,   \* t->required_lock, NULL or a lock
    donations,       \* t->donations: sequence of donor tids, front first
    dona_next,       \* t->dona_elem.next != NULL
    ready_list,      \* sequence of tids, front first
    all_list,        \* sequence of tids
    cur,             \* running_thread (): the thread whose stack the CPU is on
    thread_ticks,    \* ticks since the last dispatch
    next_tid,        \* static next_tid of allocate_tid
    load_avg,        \* fixed_point load_avg
    timer_ticks,     \* value of timer_ticks () (read in MLFQS mode only)
    page,            \* "none", "alloc" or "freed": the thread's page
    holder,          \* lock->holder, NULL or a tid
    sema,            \* lock->semaphore.value
    waiters,         \* lock->semaphore.waiters
    pc,              \* where each thread is in its own code
    wait_lock,       \* the lock argument of a suspended lock_acquire
    create_t,        \* the local t of a suspended thread_create
    create_hi,       \* whether that call's priority argument exceeded the caller's priority
    pending_priority,    \* the local new_priority of a thread_calculate_bsd_priority under way
    intr_level,      \* "INTR_ON" or "INTR_OFF"
    fault,           \* "none", "hang" (a loop that never ends with interrupts off)
                     \* or "panic" (a failed ASSERT)
    last             \* the entry point that ran last, with its arguments

vars == <<thread_mlfqs, status, priority, base_priority, nice, recent_cpu,
          required_lock, donations, dona_next, ready_list, all_list, cur,
          thread_ticks, next_tid, load_avg, timer_ticks, page, holder, sema,
          waiters, pc, wait_lock, create_t, create_hi, pending_priority, intr_level,
          fault, last>>

\* The kernel state as a record.
K ==
    [thread_mlfqs |-> thread_mlfqs, status |-> status, priority |-> priority,
     base_priority |-> base_priority, nice |-> nice, recent_cpu |-> recent_cpu,
     required_lock |-> required_lock, donations |-> donations,
     dona_next |-> dona_next, ready_list |-> ready_list, all_list |-> all_list,
     cur |-> cur, thread_ticks |-> thread_ticks, next_tid |-> next_tid,
     load_avg |-> load_avg, timer_ticks |-> timer_ticks, page |-> page,
     holder |-> holder, sema |-> sema, waiters |-> waiters, pc |-> pc,
     wait_lock |-> wait_lock, create_t |-> create_t, create_hi |-> create_hi,
     pending_priority |-> pending_priority, intr_level |-> intr_level, fault |-> fault]

\* The next state is the record s, the entry point that ran is ev.
Commit(s, ev) ==
    /\ thread_mlfqs' = s.thread_mlfqs
    /\ status' = s.status
    /\ priority' = s.priority
    /\ base_priority' = s.base_priority
    /\ nice' = s.nice
    /\ recent_cpu' = s.recent_cpu
    /\ required_lock' = s.required_lock
    /\ donations' = s.donations
    /\ dona_next' = s.dona_next
    /\ ready_list' = s.ready_list
    /\ all_list' = s.all_list
    /\ cur' = s.cur
    /\ thread_ticks' = s.thread_ticks
    /\ next_tid' = s.next_tid
    /\ load_avg' = s.load_avg
    /\ timer_ticks' = s.timer_ticks
    /\ page' = s.page
    /\ holder' = s.holder
    /\ sema' = s.sema
    /\ waiters' = s.waiters
    /\ pc' = s.pc
    /\ wait_lock' = s.wait_lock
    /\ create_t' = s.create_t
    /\ create_hi' = s.create_hi
    /\ pending_priority' = s.pending_priority
    /\ intr_level' = s.intr_level
    /\ fault' = s.fault
    /\ last' = ev

\* ---- lib/kernel/list.c ----
SeqMin(S) == CHOOSE x \in S : \A y \in S : x <= y

\* Inserts elem before the first element e of list for which less (elem, e);
\* idx is the set of the positions of these elements.
list_insert_ordered(list, elem, idx) ==
    LET pos == IF idx = {} THEN Len(list) + 1 ELSE SeqMin(idx)
    IN  SubSeq(list, 1, pos - 1) \o <<elem>> \o SubSeq(list, pos, Len(list))

list_remove(list, elem) == SelectSeq(list, LAMBDA x : x # elem)

list_push_back(list, elem) == Append(list, elem)

\* A stable sort: the element at i goes behind every element that is less than
\* it, and behind every element before it that less does not tell from it.
\* less is the set of the pairs <<a, b>> of elements with less (a, b).
list_sort(list, less) ==
    LET lt(a, b) == <<a, b>> \in less
        rank(i) == Cardinality({j \in 1 .. Len(list) :
                        \/ lt(list[j], list[i]) /\ ~lt(list[i], list[j])
                        \/ (lt(list[j], list[i]) = lt(list[i], list[j]) /\ j < i)}) + 1
    IN  [k \in 1 .. Len(list) |-> list[CHOOSE i \in 1 .. Len(list) : rank(i) = k]]

InList(list, elem) == \E i \in 1 .. Len(list) : list[i] = elem

\* ---- threads/fixed_point.h (int32_t arithmetic, C division) ----
\* The model checker computes with 32-bit integers and stops with an error on
\* an overflow, so the wrap-around of int32_t is computed without leaving
\* that range.
MaxInt32 == (2 ^ 30 - 1) + 2 ^ 30

MinInt32 == -MaxInt32 - 1

\* x + y modulo 2^32, as a signed 32-bit value.
Int32Add(x, y) ==
    IF x >= 0 /\ y >= 0 /\ x > MaxInt32 - y THEN ((x - MaxInt32) - 1) + ((y - MaxInt32) - 1)
    ELSE IF x < 0 /\ y < 0 /\ x < MinInt32 - y THEN ((x + MaxInt32) + 1) + ((y + MaxInt32) + 1)
    ELSE x + y

\* x - y modulo 2^32, as a signed 32-bit value.
Int32Sub(x, y) ==
    IF y >= 0 /\ x < MinInt32 + y THEN ((((x + MaxInt32) + 1) - y) + MaxInt32) + 1
    ELSE IF y < 0 /\ x > MaxInt32 + y THEN ((((x - MaxInt32) - 1) - y) - MaxInt32) - 1
    ELSE x - y

\* x * n modulo 2^32 by shift and add.
RECURSIVE Int32MulNat(_, _)
Int32MulNat(x, n) ==
    IF n = 0 THEN 0
    ELSE LET h == Int32MulNat(x, n \div 2)
             d == Int32Add(h, h)
         IN  IF n % 2 = 1 THEN Int32Add(d, x) ELSE d

Abs(x) == IF x < 0 THEN -x ELSE x

\* x * n modulo 2^32; the product itself when it fits.
Int32Mul(x, n) ==
    IF n = 0 \/ x = 0 THEN 0
    ELSE IF n # MinInt32 /\ x # MinInt32 /\ Abs(x) <= MaxInt32 \div Abs(n) THEN x * n
    ELSE IF n > 0 THEN Int32MulNat(x, n)
    ELSE IF n = MinInt32 THEN Int32MulNat(Int32MulNat(x, 2 ^ 30), 2)
    ELSE Int32Sub(0, Int32MulNat(x, -n))

\* C's integer division: the quotient is truncated toward zero.  (For a
\* positive divisor it is computed without negating a, which INT_MIN forbids.)
CDiv(a, b) ==
    IF b > 0
    THEN IF a >= 0 \/ a % b = 0 THEN a \div b ELSE (a \div b) + 1
    ELSE IF (a < 0) = (b < 0) THEN Abs(a) \div Abs(b) ELSE -(Abs(a) \div Abs(b))

F == 2 ^ Q

convert_to_fixed_point(n) == Int32Mul(n, F)

convert_to_int_round_down(x) == CDiv(x, F)

\* Fault: half a unit is added whatever the sign.
convert_to_int_round_half_up(x) == CDiv(Int32Add(x, CDiv(F, 2)), F)

convert_to_int_round_nearest(x) ==
    IF x >= 0 THEN CDiv(Int32Add(x, CDiv(F, 2)), F) ELSE CDiv(Int32Sub(x, CDiv(F, 2)), F)

\* The integers n whose product n * F fits int32_t lie in -IntLimit .. IntLimit - 1.
IntLimit == 2 ^ (31 - Q)

\* What convert_to_int_round_nearest (convert_to_fixed_point (n)) can yield.
\* Where n * F or the addition of F / 2 overflows int32_t the behaviour is
\* undefined: the build yields the wrapped value, or n when the compiler
\* folds (n * F + F / 2) / F on the assumption that nothing overflows.
round_trip_outcomes(n) ==
    {convert_to_int_round_nearest(convert_to_fixed_point(n))}
        \cup (IF n >= IntLimit \/ n <= -IntLimit THEN {n} ELSE {})

add_fixed_to_fixed(x, y) == Int32Add(x, y)

add_fixed_to_int(x, n) == Int32Add(x, Int32Mul(n, F))

fixed_subtract_fixed(x, y) == Int32Sub(x, y)

\* The product and the quotient are formed in int64_t.  The 64-bit product
\* divided by F is put together from the 14-bit halves of the operands, so
\* that no intermediate value leaves the 32-bit range.
multiply_fixed_by_fixed(x, y) ==
    LET ah == Abs(x) \div F
        al == Abs(x) % F
        bh == Abs(y) \div F
        bl == Abs(y) % F
        q == ((ah * bh) * F + ah * bl + al * bh) + ((al * bl) \div F)
    IN  IF (x < 0) = (y < 0) THEN q ELSE -q

multiply_fixed_by_int(x, n) == Int32Mul(x, n)

div_fixed_by_fixed(x, y) == CDiv(x * F, y)

div_fixed_by_int(x, n) == CDiv(x, n)

\* ---- threads/interrupt.c ----
intr_disable(s) == [s EXCEPT !.intr_level = "INTR_OFF"]

intr_set_level(s, level) == [s EXCEPT !.intr_level = level]

\* ---- threads/thread.c: priorities and the ready list ----
\* Fault: the comparison admits equal priorities.
thread_compare_priority_ge(s, a, b) == s.priority[a] >= s.priority[b]

thread_compare_priority(s, a, b) == s.priority[a] > s.priority[b]

\* Fault: the donations list in ascending order.
thread_compare_donation_asc(s, a, b) == s.priority[a] < s.priority[b]

thread_compare_donation(s, a, b) == s.priority[a] > s.priority[b]

ready_insert_ordered(s, t) ==
    list_insert_ordered(s.ready_list, t,
        {i \in 1 .. Len(s.ready_list) : thread_compare_priority(s, t, s.ready_list[i])})

donations_insert_ordered(s, h, t) ==
    list_insert_ordered(s.donations[h], t,
        {i \in 1 .. Len(s.donations[h]) : thread_compare_donation(s, t, s.donations[h][i])})

\* Fault: the interrupt level is not restored.
thread_unblock_off(s, t) ==
    LET s1 == intr_disable(s)
    IN  [s1 EXCEPT !.ready_list = ready_insert_ordered(s1, t),
                   !.status[t] = "READY"]

thread_unblock(s, t) ==
    LET old_level == s.intr_level
        s1 == intr_disable(s)
        s2 == [s1 EXCEPT !.ready_list = ready_insert_ordered(s1, t),
                         !.status[t] = "READY"]
    IN  intr_set_level(s2, old_level)

thread_get_max_priority(s) ==
    IF s.ready_list # <<>> THEN s.priority[Head(s.ready_list)] ELSE PRI_MIN - 1

thread_get_priority(s) == s.priority[s.cur]

thread_get_donated_priority(s, t) ==
    IF s.donations[t] # <<>> THEN s.priority[Head(s.donations[t])] ELSE PRI_MIN - 1

\* Fault: a READY thread keeps its place.
thread_reinsert_skip(s, t) == s

thread_reinsert_ready_list(s, t) ==
    IF s.status[t] = "READY"
    THEN LET s1 == [s EXCEPT !.ready_list = list_remove(@, t)]
         IN  [s1 EXCEPT !.ready_list = ready_insert_ordered(s1, t)]
    ELSE s

thread_reset_priority(s, t) ==
    LET old_level == s.intr_level
        s0 == intr_disable(s)
        donated_priority == thread_get_donated_priority(s0, t)
        s1 == IF donated_priority > s0.base_priority[t]
              THEN [s0 EXCEPT !.priority[t] = donated_priority]
              ELSE [s0 EXCEPT !.priority[t] = s0.base_priority[t]]
    IN  intr_set_level(thread_reinsert_ready_list(s1, t), old_level)

\* Fault: the donor stays linked.
thread_remove_donation_keep(s, t) == s

\* The donations list that holds t's dona_elem loses it; next becomes NULL.
thread_remove_donation(s, t) ==
    IF s.dona_next[t]
    THEN [s EXCEPT !.donations = [h \in Tids |-> list_remove(s.donations[h], t)],
                   !.dona_next[t] = FALSE]
    ELSE s

\* The while loop of thread_donate_priority from thread t on.  With a
\* required lock whose holder is NULL the loop changes nothing from its
\* second round on and never ends: fault "hang".
RECURSIVE donate_walk(_, _)
donate_walk(s, t) ==
    IF s.required_lock[t] = NULL
    THEN thread_reset_priority(s, t)
    ELSE LET s1 == thread_reset_priority(s, t)
             h == s1.holder[s1.required_lock[t]]
             s2 == IF s1.cur # t THEN thread_remove_donation(s1, t) ELSE s1
         IN  IF h # NULL
             THEN donate_walk(
                      [s2 EXCEPT !.donations[h] = donations_insert_ordered(s2, h, t),
                                 !.dona_next[t] = TRUE],
                      h)
             ELSE [s2 EXCEPT !.fault = "hang"]

\* Fault: the walk ends at the holder of t's required lock.
thread_donate_direct(s, t) ==
    LET s1 == thread_reset_priority(s, t)
        h == IF s1.required_lock[t] = NULL THEN NULL ELSE s1.holder[s1.required_lock[t]]
    IN  IF h = NULL THEN s1
        ELSE thread_reset_priority(
                 [s1 EXCEPT !.donations[h] = donations_insert_ordered(s1, h, t),
                            !.dona_next[t] = TRUE],
                 h)

thread_donate_priority(s, t) == donate_walk(s, t)

\* ---- threads/thread.c: the MLFQS formulas ----
bsd_priority(s, t) ==
    LET fp_priority_max == convert_to_fixed_point(PRI_MAX)
        temp_recent_cpu == div_fixed_by_int(s.recent_cpu[t], 4)
        temp_nice == convert_to_fixed_point(s.nice[t] * 2)
        result == fixed_subtract_fixed(
                      fixed_subtract_fixed(fp_priority_max, temp_recent_cpu), temp_nice)
        new_priority == convert_to_int_round_down(result)
    IN  IF new_priority < PRI_MIN THEN PRI_MIN
        ELSE IF new_priority > PRI_MAX THEN PRI_MAX
        ELSE new_priority

thread_calculate_bsd_priority(s, t) == [s EXCEPT !.priority[t] = bsd_priority(s, t)]

\* Fault: the running thread is not counted.
get_ready_threads_size_ready(s) == Len(s.ready_list)

get_ready_threads_size(s) ==
    Len(s.ready_list) + (IF s.cur # idle_thread THEN 1 ELSE 0)

thread_get_load_avg(s) ==
    convert_to_int_round_nearest(multiply_fixed_by_int(s.load_avg, 100))

thread_calculate_load_avg(s) ==
    LET fp_59 == convert_to_fixed_point(59)
        fp_1 == convert_to_fixed_point(1)
        temp_load_avg == multiply_fixed_by_fixed(div_fixed_by_int(fp_59, 60), s.load_avg)
        temp_ready_coeff == multiply_fixed_by_int(div_fixed_by_int(fp_1, 60),
                                                  get_ready_threads_size(s))
    IN  [s EXCEPT !.load_avg = add_fixed_to_fixed(temp_load_avg, temp_ready_coeff)]

calculated_recent_cpu(s, t) ==
    LET temp_load_avg == multiply_fixed_by_int(s.load_avg, 2)
        temp_sum == add_fixed_to_int(temp_load_avg, 1)
        coefficient == div_fixed_by_fixed(temp_load_avg, temp_sum)
    IN  add_fixed_to_int(multiply_fixed_by_fixed(coefficient, s.recent_cpu[t]), s.nice[t])

thread_calculate_recent_cpu(s, t) ==
    [s EXCEPT !.recent_cpu[t] = calculated_recent_cpu(s, t)]

\* thread_foreach (func) for a func that reads and writes its own thread only:
\* every thread of all_list gets func's value.
foreach_bsd_priority(s) ==
    [s EXCEPT !.priority = [t \in Tids |-> IF InList(s.all_list, t)
                                           THEN bsd_priority(s, t) ELSE s.priority[t]]]

foreach_recent_cpu(s) ==
    [s EXCEPT !.recent_cpu = [t \in Tids |-> IF InList(s.all_list, t)
                                             THEN calculated_recent_cpu(s, t)
                                             ELSE s.recent_cpu[t]]]

\* Fault: every recent_cpu is updated before load_avg.
thread_recalculate_bsd_variables_swapped(s) ==
    LET t == s.cur
        s1 == IF t # idle_thread
              THEN [s EXCEPT !.recent_cpu[t] = add_fixed_to_int(@, 1)]
              ELSE s
    IN  IF s1.timer_ticks % TIMER_FREQ = 0
        THEN thread_calculate_load_avg(foreach_recent_cpu(s1))
        ELSE s1

thread_recalculate_bsd_variables(s) ==
    LET t == s.cur
        s1 == IF t # idle_thread
              THEN [s EXCEPT !.recent_cpu[t] = add_fixed_to_int(@, 1)]
              ELSE s
    IN  IF s1.timer_ticks % TIMER_FREQ = 0
        THEN foreach_recent_cpu(thread_calculate_load_avg(s1))
        ELSE s1

\* ---- threads/thread.c: the context switch ----
\* Fault: the initial thread instead of the idle thread.
next_thread_to_run_initial(s) ==
    IF s.ready_list = <<>> THEN initial_thread ELSE Head(s.ready_list)

next_thread_to_run(s) ==
    IF s.ready_list = <<>> THEN idle_thread ELSE Head(s.ready_list)

\* Fault: the thread chosen stays linked.
pop_ready_keep(s) == s

\* list_pop_front of next_thread_to_run.
pop_ready(s) ==
    IF s.ready_list = <<>> THEN s ELSE [s EXCEPT !.ready_list = Tail(@)]

\* The page of thread t goes back to the allocator; a page that is not
\* allocated any more is freed a second time.
palloc_free_page(s, t) ==
    [s EXCEPT !.page[t] = IF @ = "alloc" THEN "freed" ELSE "freed twice"]

\* Fault: the page of the initial thread is freed like any other.
thread_schedule_tail_initial(s, prev) ==
    LET s1 == [s EXCEPT !.status[s.cur] = "RUNNING", !.thread_ticks = 0]
    IN  IF prev # NULL /\ s1.status[prev] = "DYING"
        THEN palloc_free_page(s1, prev)
        ELSE s1

\* Runs on the thread switched to; prev is NULL when no switch happened.
thread_schedule_tail(s, prev) ==
    LET s1 == [s EXCEPT !.status[s.cur] = "RUNNING", !.thread_ticks = 0]
    IN  IF prev # NULL /\ s1.status[prev] = "DYING" /\ prev # initial_thread
        THEN palloc_free_page(s1, prev)
        ELSE s1

RECURSIVE schedule(_)

thread_block(s) == schedule([s EXCEPT !.status[s.cur] = "BLOCKED"])

\* After sema_down: lock_acquire records the new holder and returns.
lock_acquired(s, l) ==
    intr_set_level([s EXCEPT !.required_lock[s.cur] = NULL,
                             !.holder[l] = s.cur,
                             !.wait_lock[s.cur] = NULL,
                             !.pc[s.cur] = "run"],
                   "INTR_ON")

\* sema_down on the lock's semaphore, interrupts off: the caller waits while
\* the value is 0, and tests it again each time it is woken.
sema_down(s, l) ==
    IF s.sema[l] = 0
    THEN thread_block([s EXCEPT !.waiters[l] = list_push_back(@, s.cur),
                                !.wait_lock[s.cur] = l,
                                !.pc[s.cur] = "acquire"])
    ELSE lock_acquired([s EXCEPT !.sema[l] = @ - 1], l)

\* The thread just switched to goes on from where it was suspended, up to the
\* point where it has interrupts enabled again: a new thread in kernel_thread
\* (intr_enable), the idle thread at sti; hlt, a thread that waits for a lock
\* in sema_down's loop, any other after the intr_set_level (old_level) or the
\* interrupt return that follows its schedule ().
resume(s) ==
    LET c == s.cur
    IN  CASE s.pc[c] = "acquire" -> sema_down(s, s.wait_lock[c])
          [] s.pc[c] = "idle_block" ->
                 intr_set_level([s EXCEPT !.pc[c] = "idle_hlt"], "INTR_ON")
          [] s.pc[c] \in {"run", "idle_hlt", "idle_loop", "nice_stored", "nice_computed",
                        "nice_priority"} ->
                 intr_set_level(s, "INTR_ON")
          [] OTHER -> intr_set_level([s EXCEPT !.pc[c] = "run", !.create_t[c] = NULL,
                                               !.create_hi[c] = FALSE],
                                     "INTR_ON")

schedule(s) ==
    LET next == next_thread_to_run(s)
        s1 == pop_ready(s)
        s2 == IF s1.thread_mlfqs
              THEN LET r == foreach_bsd_priority(s1)
                   IN  [r EXCEPT !.ready_list =
                            list_sort(r.ready_list,
                                      {c \in Tids \X Tids :
                                           thread_compare_priority(r, c[1], c[2])})]
              ELSE s1
        prev == IF s.cur # next THEN s.cur ELSE NULL
        s3 == [s2 EXCEPT !.cur = next]
    IN  resume(thread_schedule_tail(s3, prev))

\* Fault: the yielding thread keeps its status.
thread_yield_running(s) ==
    LET c == s.cur
        s1 == IF c # idle_thread
              THEN [s EXCEPT !.ready_list = ready_insert_ordered(s, c)]
              ELSE s
    IN  schedule(intr_disable(s1))

thread_yield(s) ==
    LET c == s.cur
        s1 == IF c # idle_thread
              THEN [s EXCEPT !.ready_list = ready_insert_ordered(s, c)]
              ELSE s
    IN  schedule([intr_disable(s1) EXCEPT !.status[c] = "READY"])

\* Fault: no yield.
thread_max_yield_never(s) == s

thread_max_yield(s) ==
    IF thread_get_max_priority(s) > thread_get_priority(s) THEN thread_yield(s) ELSE s

\* The end of an interrupt handler that did not switch threads.
intr_return(s) ==
    IF s.intr_level = "INTR_OFF" /\ s.fault = "none" THEN intr_set_level(s, "INTR_ON") ELSE s

\* ---- threads/thread.c: entry points ----
init_thread(s, t, p) ==
    [s EXCEPT !.status[t] = "BLOCKED",
              !.priority[t] = p,
              !.base_priority[t] = p,
              !.nice[t] = 0,
              !.recent_cpu[t] = 0,
              !.required_lock[t] = NULL,
              !.donations[t] = <<>>,
              !.dona_next[t] = FALSE,
              !.all_list = list_push_back(@, t)]

\* Fault: the tid is allocated before the page is asked for.
thread_create_failed_tid(s, p) == [s EXCEPT !.next_tid = @ + 1]

\* palloc_get_page returns NULL: thread_create returns TID_ERROR at once.
thread_create_failed(s, p) == s

\* Fault: thread_create without the final thread_max_yield.
thread_create_no_yield(s, p) ==
    LET t == s.next_tid
        s1 == init_thread([s EXCEPT !.page[t] = "alloc", !.pc[t] = "new",
                                    !.create_t[s.cur] = t,
                                    !.create_hi[s.cur] = (p > s.priority[s.cur])], t, p)
    IN  thread_unblock([s1 EXCEPT !.next_tid = @ + 1], t)

\* palloc_get_page succeeds; the new thread starts in kernel_thread ("new").
thread_create(s, p) ==
    LET t == s.next_tid
        s1 == init_thread([s EXCEPT !.page[t] = "alloc", !.pc[t] = "new",
                                    !.create_t[s.cur] = t,
                                    !.create_hi[s.cur] = (p > s.priority[s.cur])], t, p)
        s2 == [s1 EXCEPT !.next_tid = @ + 1]
    IN  thread_max_yield(thread_unblock(s2, t))

thread_exit(s) ==
    schedule([intr_disable(s) EXCEPT !.all_list = list_remove(@, s.cur),
                                     !.status[s.cur] = "DYING"])

thread_set_priority(s, new_priority) ==
    IF ~s.thread_mlfqs
    THEN thread_max_yield(
             thread_reset_priority([s EXCEPT !.base_priority[s.cur] = new_priority],
                                   s.cur))
    ELSE s

\* Fault: the slice ends one tick late (> for >=).
thread_tick_late(s) ==
    LET s1 == IF s.thread_mlfqs THEN thread_recalculate_bsd_variables(s) ELSE s
        s2 == [s1 EXCEPT !.thread_ticks = @ + 1]
    IN  IF s2.thread_ticks > TIME_SLICE THEN thread_yield(s2) ELSE intr_return(s2)

\* thread_set_nice runs with interrupts enabled, in four parts between which
\* a timer interrupt can come.  First the assertions and the store of nice.
\* Fault: no assertion on the range.
thread_set_nice_unchecked(s, new_nice) == [s EXCEPT !.nice[s.cur] = new_nice]

thread_set_nice(s, new_nice) ==
    IF ~s.thread_mlfqs \/ ~(new_nice >= NICE_MIN /\ new_nice <= NICE_MAX)
    THEN [s EXCEPT !.fault = "panic"]
    ELSE [s EXCEPT !.nice[s.cur] = new_nice]

\* Then thread_calculate_bsd_priority (t) reads recent_cpu and nice and
\* computes new_priority.
thread_set_nice_compute(s) == [s EXCEPT !.pending_priority[s.cur] = bsd_priority(s, s.cur)]

\* Then it stores new_priority in t->priority.
thread_set_nice_priority(s) ==
    [s EXCEPT !.priority[s.cur] = s.pending_priority[s.cur], !.pending_priority[s.cur] = PRI_MIN]

\* Then thread_reinsert_ready_list and thread_max_yield.
thread_set_nice_yield(s) == thread_max_yield(thread_reinsert_ready_list(s, s.cur))

thread_get_nice(s) == s.nice[s.cur]

\* timer_interrupt has advanced timer_ticks; at the handler's return the
\* interrupted thread yields if the slice is used up (intr_yield_on_return).
thread_tick(s) ==
    LET s1 == IF s.thread_mlfqs THEN thread_recalculate_bsd_variables(s) ELSE s
        s2 == [s1 EXCEPT !.thread_ticks = @ + 1]
    IN  IF s2.thread_ticks >= TIME_SLICE THEN thread_yield(s2) ELSE intr_return(s2)

\* ---- threads/synch.c: locks, as far as the scheduler is involved ----
LocksHeld(s, t) == {l \in Locks : s.holder[l] = t}

\* The waiter of highest effective priority, the earliest of them.
max_waiter(s, l) ==
    LET w == s.waiters[l]
        i == CHOOSE i \in 1 .. Len(w) :
                 /\ \A j \in 1 .. Len(w) : s.priority[w[j]] <= s.priority[w[i]]
                 /\ \A j \in 1 .. (i - 1) : s.priority[w[j]] < s.priority[w[i]]
    IN  w[i]

sema_up(s, l) ==
    LET old_level == s.intr_level
        s0 == intr_disable(s)
        s1 == IF s0.waiters[l] # <<>>
              THEN LET w == max_waiter(s0, l)
                   IN  thread_unblock([s0 EXCEPT !.waiters[l] = list_remove(@, w)], w)
              ELSE s0
    IN  thread_max_yield(intr_set_level([s1 EXCEPT !.sema[l] = @ + 1], old_level))

lock_acquire(s, l) ==
    LET c == s.cur
        s0 == intr_disable(s)
        s1 == IF s0.holder[l] # NULL /\ ~s0.thread_mlfqs
              THEN thread_donate_priority([s0 EXCEPT !.required_lock[c] = l], c)
              ELSE s0
    IN  IF s1.fault # "none" THEN s1 ELSE sema_down(s1, l)

\* The donors that wait on lock l are unlinked from the holder's donations.
RECURSIVE remove_lock_donors(_, _, _)
remove_lock_donors(s, l, ds) ==
    IF ds = <<>> THEN s
    ELSE remove_lock_donors(
             IF s.required_lock[Head(ds)] = l
             THEN thread_remove_donation(s, Head(ds)) ELSE s,
             l, Tail(ds))

lock_release(s, l) ==
    LET c == s.cur
        s0 == intr_disable(s)
        s1 == IF ~s0.thread_mlfqs
              THEN thread_reset_priority(remove_lock_donors(s0, l, s0.donations[c]), c)
              ELSE s0
    IN  sema_up(intr_set_level([s1 EXCEPT !.holder[l] = NULL], "INTR_ON"), l)

\* ---- the state machine ----
\* arg is the lock of a lock operation, t the thread an operation is about.
Ev(op, by, arg, t) == [op |-> op, by |-> by, arg |-> arg, t |-> t]

\* The caller of an entry point that is still on the CPU has returned from it.
Return(s, c) ==
    IF s.cur = c /\ s.fault = "none" /\ s.pc[c] \notin {"idle_hlt", "idle_loop"}
    THEN [s EXCEPT !.pc[c] = "run", !.create_t[c] = NULL, !.create_hi[c] = FALSE]
    ELSE s

\* A thread in its own code, free to call the scheduler.
CanCall == fault = "none" /\ intr_level = "INTR_ON" /\ cur # idle_thread /\ pc[cur] = "run"

\* The state after thread_init and thread_start: main runs, the idle thread
\* has run once and waits in thread_block.  (In MLFQS mode the two switches of
\* thread_start have recomputed both priorities: nice 0, recent_cpu 0.)
Init ==
    /\ thread_mlfqs \in BOOLEAN
    /\ status = [t \in Tids |-> IF t = initial_thread THEN "RUNNING"
                                ELSE IF t = idle_thread THEN "BLOCKED" ELSE "NONE"]
    /\ priority = [t \in Tids |-> IF thread_mlfqs /\ t <= idle_thread THEN PRI_MAX
                                  ELSE IF t = initial_thread THEN PRI_DEFAULT
                                  ELSE PRI_MIN]
    /\ base_priority = [t \in Tids |-> IF t = initial_thread THEN PRI_DEFAULT ELSE PRI_MIN]
    /\ nice = [t \in Tids |-> 0]
    /\ recent_cpu = [t \in Tids |-> 0]
    /\ required_lock = [t \in Tids |-> NULL]
    /\ donations = [t \in Tids |-> <<>>]
    /\ dona_next = [t \in Tids |-> FALSE]
    /\ ready_list = <<>>
    /\ all_list = <<initial_thread, idle_thread>>
    /\ cur = initial_thread
    /\ thread_ticks = 0
    /\ next_tid = idle_thread + 1
    /\ load_avg = 0
    /\ timer_ticks = 0
    /\ page = [t \in Tids |-> IF t <= idle_thread THEN "alloc" ELSE "none"]
    /\ holder = [l \in Locks |-> NULL]
    /\ sema = [l \in Locks |-> 1]
    /\ waiters = [l \in Locks |-> <<>>]
    /\ pc = [t \in Tids |-> IF t = initial_thread THEN "run"
                            ELSE IF t = idle_thread THEN "idle_block" ELSE "none"]
    /\ wait_lock = [t \in Tids |-> NULL]
    /\ create_t = [t \in Tids |-> NULL]
    /\ create_hi = [t \in Tids |-> FALSE]
    /\ pending_priority = [t \in Tids |-> PRI_MIN]
    /\ intr_level = "INTR_ON"
    /\ fault = "none"
    /\ last = Ev("init", initial_thread, 0, NULL)

\* The same state as a record.
Booted(mlfqs) ==
    [thread_mlfqs |-> mlfqs,
     status |-> [t \in Tids |-> IF t = initial_thread THEN "RUNNING"
                                ELSE IF t = idle_thread THEN "BLOCKED" ELSE "NONE"],
     priority |-> [t \in Tids |-> IF mlfqs /\ t <= idle_thread THEN PRI_MAX
                                  ELSE IF t = initial_thread THEN PRI_DEFAULT
                                  ELSE PRI_MIN],
     base_priority |-> [t \in Tids |-> IF t = initial_thread THEN PRI_DEFAULT ELSE PRI_MIN],
     nice |-> [t \in Tids |-> 0],
     recent_cpu |-> [t \in Tids |-> 0],
     required_lock |-> [t \in Tids |-> NULL],
     donations |-> [t \in Tids |-> <<>>],
     dona_next |-> [t \in Tids |-> FALSE],
     ready_list |-> <<>>,
     all_list |-> <<initial_thread, idle_thread>>,
     cur |-> initial_thread,
     thread_ticks |-> 0,
     next_tid |-> idle_thread + 1,
     load_avg |-> 0,
     timer_ticks |-> 0,
     page |-> [t \in Tids |-> IF t <= idle_thread THEN "alloc" ELSE "none"],
     holder |-> [l \in Locks |-> NULL],
     sema |-> [l \in Locks |-> 1],
     waiters |-> [l \in Locks |-> <<>>],
     pc |-> [t \in Tids |-> IF t = initial_thread THEN "run"
                            ELSE IF t = idle_thread THEN "idle_block" ELSE "none"],
     wait_lock |-> [t \in Tids |-> NULL],
     create_t |-> [t \in Tids |-> NULL],
     create_hi |-> [t \in Tids |-> FALSE],
     pending_priority |-> [t \in Tids |-> PRI_MIN],
     intr_level |-> "INTR_ON",
     fault |-> "none"]

\* The first state is the record s.
Start(s, ev) ==
    /\ thread_mlfqs = s.thread_mlfqs
    /\ status = s.status
    /\ priority = s.priority
    /\ base_priority = s.base_priority
    /\ nice = s.nice
    /\ recent_cpu = s.recent_cpu
    /\ required_lock = s.required_lock
    /\ donations = s.donations
    /\ dona_next = s.dona_next
    /\ ready_list = s.ready_list
    /\ all_list = s.all_list
    /\ cur = s.cur
    /\ thread_ticks = s.thread_ticks
    /\ next_tid = s.next_tid
    /\ load_avg = s.load_avg
    /\ timer_ticks = s.timer_ticks
    /\ page = s.page
    /\ holder = s.holder
    /\ sema = s.sema
    /\ waiters = s.waiters
    /\ pc = s.pc
    /\ wait_lock = s.wait_lock
    /\ create_t = s.create_t
    /\ create_hi = s.create_hi
    /\ pending_priority = s.pending_priority
    /\ intr_level = s.intr_level
    /\ fault = s.fault
    /\ last = ev

CreateWithin(n, p) ==
    /\ CanCall
    /\ next_tid <= n
    /\ Commit(Return(thread_create([K EXCEPT !.pc[cur] = "create"], p), cur),
              Ev("create", cur, 0, next_tid))

Create(p) == CreateWithin(MaxThreads, p)

\* thread_create when no page is free; the event records the value returned.
CreateFail(p) ==
    /\ CanCall
    /\ Commit(Return(thread_create_failed([K EXCEPT !.pc[cur] = "create"], p), cur),
              Ev("create", cur, 0, TID_ERROR))

CreateSort(p) == CreateWithin(MaxSortThreads, p)

Yield ==
    /\ CanCall
    /\ Commit(Return(thread_yield([K EXCEPT !.pc[cur] = "yield"]), cur),
              Ev("yield", cur, 0, NULL))

\* thread_block called with interrupts off by a thread that waits for an event.
Block ==
    /\ CanCall
    /\ Commit(thread_block(intr_disable([K EXCEPT !.pc[cur] = "block"])),
              Ev("block", cur, 0, NULL))

\* thread_unblock (t) of a thread that waits in Block, called by the running
\* thread with interrupts on, or with interrupts off by an interrupt handler,
\* which then returns.  An interrupt ends the idle thread's hlt.
Unblock(t) ==
    /\ fault = "none"
    /\ status[t] = "BLOCKED"
    /\ pc[t] = "block"
    /\ \E level \in {"INTR_ON", "INTR_OFF"} :
           /\ cur = idle_thread => level = "INTR_OFF"
           /\ LET s0 == IF cur = idle_thread THEN [K EXCEPT !.pc[idle_thread] = "idle_loop"]
                        ELSE K
              IN  Commit(intr_return(thread_unblock(intr_set_level(s0, level), t)),
                         Ev("unblock", cur, 0, t))

Exit ==
    /\ CanCall
    /\ LocksHeld(K, cur) = {}
    /\ Commit(thread_exit([K EXCEPT !.pc[cur] = "dead"]), Ev("exit", cur, 0, NULL))

SetPriority(p) ==
    /\ CanCall
    /\ Commit(Return(thread_set_priority([K EXCEPT !.pc[cur] = "set_priority"], p), cur),
              Ev("set_priority", cur, 0, NULL))

\* thread_set_nice (n) up to the store of nice.
SetNice(n) ==
    /\ CanCall
    /\ Commit([thread_set_nice(K, n) EXCEPT !.pc[cur] = IF n >= NICE_MIN /\ n <= NICE_MAX
                                                        THEN "nice_stored" ELSE "run"],
              Ev("set_nice", cur, n, NULL))

SetNiceCompute ==
    /\ fault = "none"
    /\ pc[cur] = "nice_stored"
    /\ Commit([thread_set_nice_compute(K) EXCEPT !.pc[cur] = "nice_computed"],
              Ev("set_nice_compute", cur, nice[cur], NULL))

SetNicePriority ==
    /\ fault = "none"
    /\ pc[cur] = "nice_computed"
    /\ Commit([thread_set_nice_priority(K) EXCEPT !.pc[cur] = "nice_priority"],
              Ev("set_nice_priority", cur, nice[cur], NULL))

SetNiceYield ==
    /\ fault = "none"
    /\ pc[cur] = "nice_priority"
    /\ Commit(Return(thread_set_nice_yield([K EXCEPT !.pc[cur] = "set_nice"]), cur),
              Ev("set_nice_done", cur, thread_get_nice(K), NULL))

\* Locks are taken in increasing order, which keeps the holder chains acyclic.
LockAcquire(l) ==
    /\ CanCall
    /\ \A m \in LocksHeld(K, cur) : m < l
    /\ Commit(lock_acquire(K, l), Ev("lock_acquire", cur, l, holder[l]))

LockRelease(l) ==
    /\ CanCall
    /\ holder[l] = cur
    /\ Commit(Return(lock_release([K EXCEPT !.pc[cur] = "release"], l), cur),
              Ev("lock_release", cur, l, NULL))

\* The priority model's functions called on a thread t of all_list by the
\* running thread, with interrupts off where the function asserts it.
ResetPriority(t) ==
    /\ CanCall
    /\ InList(all_list, t)
    /\ Commit(thread_reset_priority(K, t), Ev("reset_priority", cur, 0, t))

DonatePriority(t) ==
    /\ CanCall
    /\ InList(all_list, t)
    /\ Commit(intr_set_level(thread_donate_priority(intr_disable(K), t), "INTR_ON"),
              Ev("donate_priority", cur, 0, t))

RemoveDonation(t) ==
    /\ CanCall
    /\ InList(all_list, t)
    /\ Commit(intr_set_level(thread_remove_donation(intr_disable(K), t), "INTR_ON"),
              Ev("remove_donation", cur, 0, t))

\* A timer interrupt.  It ends the idle thread's hlt.  In MLFQS mode
\* timer_ticks stays within n.
TickWithin(n) ==
    /\ fault = "none"
    /\ thread_mlfqs => timer_ticks < n
    /\ LET s0 == IF thread_mlfqs THEN [K EXCEPT !.timer_ticks = @ + 1] ELSE K
           s1 == IF cur = idle_thread THEN [s0 EXCEPT !.pc[idle_thread] = "idle_loop"]
                 ELSE s0
       IN  Commit(thread_tick(intr_disable(s1)), Ev("tick", cur, 0, NULL))

Tick == TickWithin(MaxTicks)

TickSeconds == TickWithin(MaxSeconds * TIMER_FREQ)

\* The idle thread's loop after hlt: intr_disable (); thread_block ().
IdleLoop ==
    /\ fault = "none"
    /\ cur = idle_thread
    /\ pc[idle_thread] = "idle_loop"
    /\ Commit(thread_block(intr_disable([K EXCEPT !.pc[idle_thread] = "idle_block"])),
              Ev("idle", cur, 0, NULL))

\* The scheduler's entry points and the timer, without locks.
Next ==
    \/ \E p \in Priorities : Create(p)
    \/ Yield
    \/ Block
    \/ \E t \in Tids : Unblock(t)
    \/ Exit
    \/ \E p \in Priorities : SetPriority(p)
    \/ Tick
    \/ IdleLoop

Spec == Init /\ [][Next]_vars

\* Threads that take and release locks, without the timer and thread_exit.
NextLock ==
    \/ \E p \in Priorities : Create(p)
    \/ Yield
    \/ Block
    \/ \E t \in Tids : Unblock(t)
    \/ \E p \in Priorities : SetPriority(p)
    \/ \E l \in Locks : LockAcquire(l)
    \/ \E l \in Locks : LockRelease(l)
    \/ IdleLoop

SpecLock == Init /\ [][NextLock]_vars

\* Threads that take and release locks and are preempted by the timer: every
\* way the order of ready_list is made or changed.
NextSort ==
    \/ \E p \in Priorities : CreateSort(p)
    \/ \E l \in Locks : LockAcquire(l)
    \/ \E l \in Locks : LockRelease(l)
    \/ Tick

SpecSort == Init /\ [][NextSort]_vars

\* The life of threads from thread_create to thread_exit, with creations that
\* fail for lack of memory.
NextLife ==
    \/ \E p \in Priorities : Create(p)
    \/ \E p \in Priorities : CreateFail(p)
    \/ Yield
    \/ Block
    \/ \E t \in Tids : Unblock(t)
    \/ Exit
    \/ IdleLoop

SpecLife == Init /\ [][NextLife]_vars

\* The MLFQS priority formula as a function of recent_cpu and nice: the main
\* thread has any nice value and a recent_cpu near a whole number up to
\* MaxRecentCpu, or at an end of the int32_t range, and its priority is
\* computed from them.
RecentCpuInputs ==
    {c * F + d : c \in -MaxRecentCpu .. MaxRecentCpu, d \in -4 .. 4}
        \cup {MinInt32, MinInt32 + 1, MaxInt32 - 1, MaxInt32}

InitBsd ==
    \E rc \in RecentCpuInputs, n \in NICE_MIN .. NICE_MAX :
        Start([Booted(TRUE) EXCEPT !.recent_cpu[initial_thread] = rc,
                                   !.nice[initial_thread] = n],
              Ev("init", initial_thread, 0, NULL))

CalculateBsdPriority(t) ==
    /\ last.op = "init"
    /\ InList(all_list, t)
    /\ Commit(thread_calculate_bsd_priority(K, t), Ev("bsd_priority", cur, 0, t))

NextBsd == \E t \in Tids : CalculateBsdPriority(t)

SpecBsd == InitBsd /\ [][NextBsd]_vars

\* The conversions of fixed_point.h as functions of an integer n, for every n
\* that fits the 17.14 format and a few beyond it.
InitFix ==
    \E n \in -(IntLimit + MaxBeyond) .. (IntLimit + MaxBeyond) :
        Start(Booted(FALSE), Ev("input", initial_thread, n, NULL))

\* arg is n, t the value of convert_to_int_round_nearest (convert_to_fixed_point (n)).
RoundTrip ==
    /\ last.op = "input"
    /\ \E r \in round_trip_outcomes(last.arg) :
           Commit(K, Ev("round_trip", cur, last.arg, r))

NextFix == RoundTrip

SpecFix == InitFix /\ [][NextFix]_vars

\* MLFQS mode over MaxSeconds seconds of timer ticks, with one thread that never
\* leaves the CPU (main), or with the idle thread alone (main waits in
\* thread_block and nothing wakes it).
InitLoad ==
    \/ Start(Booted(TRUE), Ev("init", initial_thread, 0, NULL))
    \/ Start(thread_block(intr_disable([Booted(TRUE) EXCEPT !.pc[initial_thread] = "block"])),
             Ev("block", initial_thread, 0, NULL))

NextLoad ==
    \/ TickSeconds
    \/ IdleLoop

SpecLoad == InitLoad /\ [][NextLoad]_vars

\* MLFQS mode with threads that change their nice value.
NiceArgs == {NICE_MIN - 1, NICE_MIN, 0, NICE_MAX, NICE_MAX + 1}

InitNice == Start(Booted(TRUE), Ev("init", initial_thread, 0, NULL))

NextNice ==
    \/ Create(PRI_DEFAULT)
    \/ \E n \in NiceArgs : SetNice(n)
    \/ SetNiceCompute
    \/ SetNicePriority
    \/ SetNiceYield
    \/ Tick

SpecNice == InitNice /\ [][NextNice]_vars

\* MLFQS mode around the first full second: main has waited in thread_block
\* from the start until MaxTicks ticks before it (the idle thread ran and
\* nothing was charged), then threads are created, change their nice value,
\* block and run while the timer goes to the first tick after the second.
InitCpu ==
    Start([Booted(TRUE) EXCEPT !.timer_ticks = TIMER_FREQ - MaxTicks],
          Ev("init", initial_thread, 0, NULL))

TickCpu == TickWithin(TIMER_FREQ + 1)

NextCpu ==
    \/ Create(PRI_DEFAULT)
    \/ SetNice(NICE_MAX)
    \/ SetNiceCompute
    \/ SetNicePriority
    \/ SetNiceYield
    \/ Block
    \/ IdleLoop
    \/ TickCpu

SpecCpu == InitCpu /\ [][NextCpu]_vars

\* MLFQS mode with callers of the priority model's functions.
NextInert ==
    \/ Create(PRI_DEFAULT)
    \/ \E t \in Tids : ResetPriority(t)
    \/ \E t \in Tids : DonatePriority(t)
    \/ \E t \in Tids : RemoveDonation(t)
    \/ Tick

SpecInert == InitNice /\ [][NextInert]_vars

\* ---- properties ----
Range(list) == {list[i] : i \in 1 .. Len(list)}

SetMax(S) == CHOOSE x \in S : \A y \in S : y <= x

Live(t) == status[t] \in {"RUNNING", "READY", "BLOCKED"}

\* The holders reached from t over required_lock and holder, at most n of them.
RECURSIVE HolderChain(_, _)
HolderChain(t, n) ==
    IF n = 0 \/ required_lock[t] = NULL \/ holder[required_lock[t]] = NULL
    THEN {}
    ELSE {holder[required_lock[t]]} \cup HolderChain(holder[required_lock[t]], n - 1)

\* C1: in every reachable state exactly one thread has status RUNNING, and it
\* is the thread that thread_current returns.
OneRunningThread ==
    /\ Cardinality({t \in Tids : status[t] = "RUNNING"}) = 1
    /\ status[cur] = "RUNNING"

\* A created thread runs after a timer preemption while main is ready and
\* another thread waits in thread_block.
OneRunningThreadWitness ==
    /\ last.op = "tick"
    /\ cur \notin {initial_thread, idle_thread}
    /\ status[initial_thread] = "READY"
    /\ \E t \in Tids : status[t] = "BLOCKED" /\ pc[t] = "block"

\* C2: whenever interrupts are enabled, ready_list is sorted by non-increasing
\* effective priority, in both scheduling modes.
ReadyListSorted ==
    (fault = "none" /\ intr_level = "INTR_ON") =>
        \A i, j \in 1 .. Len(ready_list) :
            i < j => priority[ready_list[i]] >= priority[ready_list[j]]

\* A lock holder that received a donation while it was READY is in ready_list
\* with the donated priority, in front of a thread of lower priority.
ReadyListSortedWitness ==
    /\ last.op = "lock_acquire"
    /\ Len(ready_list) >= 2
    /\ ready_list[1] = last.t
    /\ priority[ready_list[2]] > base_priority[last.t]
    /\ last.t # NULL
    /\ status[last.t] = "READY"
    /\ InList(ready_list, last.t)
    /\ priority[last.t] > base_priority[last.t]
    /\ intr_level = "INTR_ON"

\* C3: in non-MLFQS mode, when thread T has blocked in lock_acquire and its
\* donation walk has ended, every thread on the chain of holders from T has an
\* effective priority of at least T's.
DonationReachesChain ==
    (/\ ~thread_mlfqs
     /\ fault = "none"
     /\ last.op = "lock_acquire"
     /\ last.t # NULL
     /\ status[last.by] = "BLOCKED")
    => \A h \in HolderChain(last.by, MaxSortThreads) : priority[h] >= priority[last.by]

\* T waits for a lock whose holder waits for another lock: both holders, of
\* lower base priority, carry T's priority.
DonationReachesChainWitness ==
    /\ ~thread_mlfqs
    /\ fault = "none"
    /\ last.op = "lock_acquire"
    /\ status[last.by] = "BLOCKED"
    /\ Cardinality(HolderChain(last.by, MaxSortThreads)) = 2
    /\ \A h \in HolderChain(last.by, MaxSortThreads) :
           base_priority[h] < priority[last.by] /\ priority[h] = priority[last.by]

\* C4: in non-MLFQS mode, whenever interrupts are enabled, every thread's
\* priority is the maximum of its base_priority and of the priorities of the
\* donors linked in its donations list.
PriorityIsMaxOfBaseAndDonors ==
    (~thread_mlfqs /\ fault = "none" /\ intr_level = "INTR_ON") =>
        \A t \in Tids :
            Live(t) =>
                priority[t] = SetMax({base_priority[t]}
                                         \cup {priority[d] : d \in Range(donations[t])})

\* A thread with two donors of different priority, both above its base.
PriorityIsMaxOfBaseAndDonorsWitness ==
    /\ ~thread_mlfqs
    /\ fault = "none"
    /\ \E t \in Tids :
           /\ Len(donations[t]) = 2
           /\ priority[donations[t][1]] > priority[donations[t][2]]
           /\ priority[donations[t][2]] > base_priority[t]

\* C5: in non-MLFQS mode, lock_release of lock L by its holder H unlinks every
\* donor of H that waits on L, and leaves H with the maximum of its
\* base_priority and of the priorities of the donors that remain; with no donor
\* left that is the base priority.
ReleaseDropsDonors ==
    [][(last'.op = "lock_release" /\ ~thread_mlfqs) =>
           LET H == cur
               L == last'.arg
               kept == {d \in Range(donations[H]) : required_lock[d] # L}
           IN  /\ Range(donations'[H]) = kept
               /\ \A d \in kept : required_lock'[d] # NULL /\ holder'[required_lock'[d]] = H
               /\ \A d \in Range(donations[H]) \ kept : ~dona_next'[d]
               /\ priority'[H] = SetMax({base_priority'[H]}
                                            \cup {priority'[d] : d \in kept})]_vars

\* A holder that ran on a donated priority is back at its base priority after
\* the release, and the former donor holds the lock and runs.
ReleaseDropsDonorsWitness ==
    /\ ~thread_mlfqs
    /\ last.op = "lock_release"
    /\ priority[last.by] = base_priority[last.by]
    /\ donations[last.by] = <<>>
    /\ holder[last.arg] = cur
    /\ cur # last.by
    /\ priority[cur] > priority[last.by]

\* C6 as stated: after thread_set_priority (p) by a thread without donations,
\* that thread's priority is p and the running thread has a priority of at
\* least that of every thread in ready_list.
SetPriorityTakesEffect ==
    [][\A p \in Priorities :
           (last'.op = "set_priority" /\ SetPriority(p) /\ donations[cur] = <<>>) =>
               /\ priority'[cur] = p
               /\ \A r \in Range(ready_list') : priority'[cur'] >= priority'[r]]_vars

\* C6: in non-MLFQS mode, after thread_set_priority (p) by a thread without
\* donations, that thread's priority is p and the running thread has a priority
\* of at least that of every thread in ready_list.
SetPriorityTakesEffectNoMlfqs ==
    [][\A p \in Priorities :
           (last'.op = "set_priority" /\ ~thread_mlfqs /\ donations[cur] = <<>>
            /\ SetPriority(p)) =>
               /\ priority'[cur] = p
               /\ \A r \in Range(ready_list') : priority'[cur'] >= priority'[r]]_vars

\* A thread lowered its priority below that of a ready thread and yielded.
SetPriorityTakesEffectWitness ==
    /\ ~thread_mlfqs
    /\ last.op = "set_priority"
    /\ cur # last.by
    /\ status[last.by] = "READY"
    /\ donations[last.by] = <<>>
    /\ priority[last.by] = PRI_DEFAULT
    /\ priority[cur] > priority[last.by]

\* C7 as stated: a thread_create with a priority above the caller's does not
\* return before the new thread has been dispatched; a thread_create with an
\* equal or lower priority does not dispatch the new thread.
CreatePreempts ==
    [][/\ \A p \in Priorities :
              (last'.op = "create" /\ Create(p)) =>
                  /\ p > priority[cur] => pc'[cur] = "create"
                  /\ p <= priority[cur] => cur' # next_tid
       /\ \A c \in Tids :
              (pc[c] = "create" /\ create_hi[c] /\ pc'[c] = "run") =>
                  pc[create_t[c]] # "new"]_vars

\* C7: a thread_create with a priority above the caller's and above that of
\* every thread in ready_list dispatches the new thread inside thread_create,
\* with the caller READY and not yet returned; a thread_create with an equal or
\* lower priority leaves the new thread READY and not yet started.
CreatePreemptsAboveReady ==
    [][\A p \in Priorities :
           (last'.op = "create" /\ Create(p)) =>
               /\ (p > priority[cur] /\ \A r \in Range(ready_list) : priority[r] < p) =>
                      /\ cur' = next_tid
                      /\ status'[next_tid] = "RUNNING"
                      /\ status'[cur] = "READY"
                      /\ pc'[cur] = "create"
               /\ p <= priority[cur] =>
                      /\ cur' # next_tid
                      /\ status'[next_tid] = "READY"
                      /\ pc'[next_tid] = "new"]_vars

\* The new thread runs and its creator is READY inside thread_create.
CreatePreemptsWitness ==
    /\ last.op = "create"
    /\ cur = last.t
    /\ status[last.by] = "READY"
    /\ pc[last.by] = "create"
    /\ create_hi[last.by]
    /\ create_t[last.by] = cur

\* C8: thread_unblock (t) of a BLOCKED thread, called with interrupts on or
\* off, makes t READY and links it into ready_list, leaves the running thread
\* running, and leaves the interrupt level as it was at the call.
UnblockKeepsRunning ==
    (fault = "none" /\ intr_level = "INTR_ON") =>
        \A t \in Tids, level \in {"INTR_ON", "INTR_OFF"} :
            status[t] = "BLOCKED" =>
                LET r == thread_unblock(intr_set_level(K, level), t)
                IN  /\ r.status[t] = "READY"
                    /\ InList(r.ready_list, t)
                    /\ Range(r.ready_list) = Range(ready_list) \cup {t}
                    /\ r.cur = cur
                    /\ r.status[cur] = "RUNNING"
                    /\ r.intr_level = level

\* A thread of higher priority than the running one was unblocked and is
\* READY; its unblocker still runs.
UnblockKeepsRunningWitness ==
    /\ last.op = "unblock"
    /\ cur = last.by
    /\ status[cur] = "RUNNING"
    /\ status[last.t] = "READY"
    /\ InList(ready_list, last.t)
    /\ priority[last.t] > priority[cur]

\* C9 as stated: a thread that is BLOCKED after thread_block leaves that status
\* only by a thread_unblock called on it, which makes it READY.
BlockedUntilUnblocked ==
    [][\A t \in Tids :
           (status[t] = "BLOCKED" /\ status'[t] # "BLOCKED") =>
               (last'.op = "unblock" /\ last'.t = t /\ status'[t] = "READY")]_vars

\* C9: a thread other than the idle thread that is BLOCKED after thread_block
\* leaves that status only by a thread_unblock called on it, which makes it
\* READY.
BlockedUntilUnblockedExceptIdle ==
    [][\A t \in Tids \ {idle_thread} :
           (status[t] = "BLOCKED" /\ status'[t] # "BLOCKED") =>
               (last'.op = "unblock" /\ last'.t = t /\ status'[t] = "READY")]_vars

\* Every thread had blocked and the idle thread ran when an interrupt handler
\* unblocked a thread.
BlockedUntilUnblockedWitness ==
    /\ last.op = "unblock"
    /\ cur = idle_thread
    /\ last.t # idle_thread
    /\ pc[last.t] = "block"
    /\ status[last.t] = "READY"

\* C10: when the running thread yields or is preempted at the end of its time
\* slice and all ready threads have its priority, the thread at the front of
\* ready_list runs next and the yielding thread goes to the back.
EqualPriorityFifo ==
    [][(/\ \/ last'.op = "yield"
           \/ last'.op = "tick" /\ thread_ticks + 1 >= TIME_SLICE
        /\ cur # idle_thread
        /\ ready_list # <<>>
        /\ \A r \in Range(ready_list) :
               priority[r] = priority[cur] /\ priority'[r] = priority'[cur])
       => (cur' = Head(ready_list) /\ ready_list' = Append(Tail(ready_list), cur))]_vars

\* Three threads of equal priority: main was preempted first, thread 3 runs,
\* thread 4 is next and main is behind it.
EqualPriorityFifoWitness ==
    /\ last.op = "tick"
    /\ cur = idle_thread + 1
    /\ ready_list = <<idle_thread + 2, initial_thread>>
    /\ \A r \in Range(ready_list) : priority[r] = priority[cur]

\* C11: thread_ticks is 0 after every dispatch and counts the ticks since; a
\* tick that brings it to TIME_SLICE while a thread of the running thread's
\* priority is ready switches to the front of ready_list and leaves the
\* preempted thread READY, so no thread runs on for TIME_SLICE ticks or more.
SliceBounded ==
    [][/\ thread_ticks' < TIME_SLICE
       /\ cur' # cur => thread_ticks' = 0
       /\ last'.op # "tick" => thread_ticks' \in {thread_ticks, 0}
       /\ last'.op = "tick" =>
              IF thread_ticks + 1 < TIME_SLICE
              THEN cur' = cur /\ thread_ticks' = thread_ticks + 1
              ELSE (\E r \in Range(ready_list) : priority[r] = priority[cur]) =>
                       /\ cur' = Head(ready_list)
                       /\ cur' # cur
                       /\ priority[cur'] >= priority[cur]
                       /\ status'[cur] = "READY"
                       /\ thread_ticks' = 0]_vars

\* A created thread that ran for a whole slice was preempted in favour of a
\* thread of its own priority that is not main.
SliceBoundedWitness ==
    /\ last.op = "tick"
    /\ last.by \notin {initial_thread, idle_thread}
    /\ cur \notin {initial_thread, idle_thread, last.by}
    /\ status[last.by] = "READY"
    /\ priority[cur] = priority[last.by]
    /\ thread_ticks = 0

\* C12: a thread_create that gets no page returns TID_ERROR and changes
\* nothing: no thread is added to all_list or ready_list, no tid is consumed,
\* and the caller keeps running.
CreateFailureLeavesState ==
    [][(last'.op = "create" /\ last'.t = TID_ERROR) =>
           /\ all_list' = all_list
           /\ ready_list' = ready_list
           /\ next_tid' = next_tid
           /\ status' = status
           /\ page' = page
           /\ cur' = cur
           /\ status'[cur'] = "RUNNING"
           /\ pc'[cur'] = "run"
           /\ K' = K]_vars

\* A creation failed after another thread had been created and is ready.
CreateFailureLeavesStateWitness ==
    /\ last.op = "create"
    /\ last.t = TID_ERROR
    /\ cur = last.by
    /\ next_tid > idle_thread + 1
    /\ ready_list # <<>>

\* C13: a thread that has called thread_exit is DYING for good, is in neither
\* all_list nor ready_list and is not the running thread; its page is freed
\* once, in the step of its thread_exit, by the thread switched to; the page
\* of the initial thread is never freed.
ExitFreesPageOnce ==
    /\ [](\A t \in Tids :
              /\ page[t] \in {"none", "alloc", "freed"}
              /\ status[t] = "DYING" =>
                     /\ ~InList(all_list, t)
                     /\ ~InList(ready_list, t)
                     /\ cur # t
                     /\ page[t] = IF t = initial_thread THEN "alloc" ELSE "freed")
    /\ [][\A t \in Tids :
              /\ (last'.op = "exit" /\ last'.by = t) => status'[t] = "DYING"
              /\ status[t] = "DYING" => status'[t] = "DYING"
              /\ page[t] = "freed" => page'[t] = "freed"
              /\ (page[t] # "freed" /\ page'[t] = "freed") =>
                     /\ last'.op = "exit"
                     /\ last'.by = t
                     /\ cur = t
                     /\ cur' # t
                     /\ status'[cur'] = "RUNNING"
              /\ page'[initial_thread] = "alloc"]_vars

\* The initial thread and a created thread have exited; a third thread runs.
ExitFreesPageOnceWitness ==
    /\ status[initial_thread] = "DYING"
    /\ page[initial_thread] = "alloc"
    /\ \E t \in Tids \ {initial_thread} : status[t] = "DYING" /\ page[t] = "freed"
    /\ cur \notin {initial_thread, idle_thread}

\* The whole number PRI_MAX - recent_cpu / 4 - 2 * nice rounded toward minus
\* infinity, for the 17.14 value rc, kept within PRI_MIN .. PRI_MAX.
ExactBsdPriority(rc, n) ==
    LET quarter_up == (rc \div (4 * F)) + (IF rc % (4 * F) = 0 THEN 0 ELSE 1)
        v == (PRI_MAX - 2 * n) - quarter_up
    IN  IF v < PRI_MIN THEN PRI_MIN ELSE IF v > PRI_MAX THEN PRI_MAX ELSE v

RoundTripWholeRange ==
    (last.op = "round_trip" /\ last.arg \in -(2 ^ 17) .. 2 ^ 17) => last.t = last.arg

\* C15: for every integer n with -2^17 < n < 2^17,
\* convert_to_int_round_nearest (convert_to_fixed_point (n)) = n.
RoundTripInsideRange ==
    (last.op = "round_trip" /\ last.arg \in (1 - 2 ^ 17) .. (2 ^ 17 - 1)) => last.t = last.arg

\* The least integer of the range came back from the round trip.
RoundTripInsideRangeWitness ==
    /\ last.op = "round_trip"
    /\ last.arg = 1 - 2 ^ 17
    /\ last.t = last.arg

\* C16 as stated: in MLFQS mode, from load_avg = 0, after 60 seconds with one
\* thread that is always running thread_get_load_avg returns a value in
\* 98 .. 102; with the idle thread alone it returns 0.
LoadAvgNearHundred ==
    (thread_mlfqs /\ timer_ticks = 60 * TIMER_FREQ) =>
        IF status[initial_thread] = "BLOCKED"
        THEN thread_get_load_avg(K) = 0
        ELSE thread_get_load_avg(K) \in 98 .. 102

\* C16: in MLFQS mode, from load_avg = 0, after 60 seconds with one thread that
\* is always running thread_get_load_avg returns 63, and up to then it never
\* returned more; with the idle thread alone it returns 0 at every time.
LoadAvgAfterMinute ==
    thread_mlfqs =>
        IF status[initial_thread] = "BLOCKED"
        THEN thread_get_load_avg(K) = 0
        ELSE /\ timer_ticks = 60 * TIMER_FREQ => thread_get_load_avg(K) = 63
             /\ timer_ticks <= 60 * TIMER_FREQ => thread_get_load_avg(K) \in 0 .. 63

\* The 60th update of load_avg has happened with main on the CPU all the time.
LoadAvgAfterMinuteWitness ==
    /\ thread_mlfqs
    /\ last.op = "tick"
    /\ timer_ticks = 60 * TIMER_FREQ
    /\ cur = initial_thread
    /\ ready_list = <<>>
    /\ load_avg > 0
    /\ thread_get_load_avg(K) = 63

\* C17 as stated: in MLFQS mode thread_set_nice (n) with any n stores n
\* clamped to NICE_MIN .. NICE_MAX and goes on to return.
SetNiceClamps ==
    [][last'.op = "set_nice" =>
           /\ fault' = "none"
           /\ nice'[cur] = (IF last'.arg < NICE_MIN THEN NICE_MIN
                            ELSE IF last'.arg > NICE_MAX THEN NICE_MAX ELSE last'.arg)]_vars

\* C17: in MLFQS mode thread_set_nice (n) with n in NICE_MIN .. NICE_MAX
\* stores n, then computes the value of the MLFQS formula for the caller,
\* then stores it as the caller's priority, then yields to the front of
\* ready_list if a ready thread has a higher priority; with any other n it
\* fails its assertion and stores nothing.  The stored nice of every thread is
\* always in -20 .. 20.
SetNiceAsserts ==
    [][/\ last'.op = "set_nice" =>
              IF last'.arg \in NICE_MIN .. NICE_MAX
              THEN fault' = "none" /\ nice'[cur] = last'.arg /\ cur' = cur
              ELSE fault' = "panic" /\ nice' = nice
       /\ last'.op = "set_nice_compute" =>
              /\ pending_priority'[cur] = bsd_priority(K, cur)
              /\ nice' = nice
              /\ cur' = cur
       /\ last'.op = "set_nice_priority" =>
              /\ priority'[cur] = pending_priority[cur]
              /\ nice' = nice
              /\ cur' = cur
       /\ last'.op = "set_nice_done" =>
              /\ nice' = nice
              /\ IF \E r \in Range(ready_list) : priority[r] > priority[cur]
                 THEN cur' = Head(ready_list) /\ status'[cur] = "READY"
                 ELSE cur' = cur /\ pc'[cur] = "run"
       /\ \A t \in Tids : nice'[t] \in -20 .. 20]_vars

\* A thread raised its nice value to NICE_MAX and yielded to a ready thread
\* that now has a higher priority.
SetNiceAssertsWitness ==
    /\ last.op = "set_nice_done"
    /\ cur # last.by
    /\ status[last.by] = "READY"
    /\ nice[last.by] = NICE_MAX
    /\ priority[cur] > priority[last.by]
    /\ fault = "none"

\* C18 as stated: whenever interrupts are enabled, a thread is linked in
\* ready_list if and only if its status is READY, the idle thread included.
ReadyIffLinked ==
    (fault = "none" /\ intr_level = "INTR_ON") =>
        \A t \in Tids : InList(ready_list, t) <=> status[t] = "READY"

\* C18: whenever interrupts are enabled, a thread other than the idle thread
\* is linked in ready_list, once, if and only if its status is READY; the idle
\* thread is never linked in ready_list, whatever its status.
ReadyIffLinkedExceptIdle ==
    (fault = "none" /\ intr_level = "INTR_ON") =>
        /\ \A t \in Tids \ {idle_thread} :
               Cardinality({i \in 1 .. Len(ready_list) : ready_list[i] = t})
                   = IF status[t] = "READY" THEN 1 ELSE 0
        /\ ~InList(ready_list, idle_thread)

\* The idle thread was preempted at the end of its slice: it is READY and not
\* linked, and another thread is.
ReadyIffLinkedExceptIdleWitness ==
    /\ last.op = "tick"
    /\ last.by = idle_thread
    /\ status[idle_thread] = "READY"
    /\ cur # idle_thread
    /\ ready_list # <<>>
    /\ \A i \in 1 .. Len(ready_list) : status[ready_list[i]] = "READY"

\* C19 as stated: thread_donate_priority returns for every acyclic chain of
\* lock holders, also when a thread on the chain requires a lock whose holder
\* is NULL: no call of it loops for ever.
DonationWalkTerminates ==
    [][last'.op = "lock_acquire" => fault' # "hang"]_vars

\* C20 as stated: in MLFQS mode the thread that schedule dispatches has, under
\* the priorities that schedule has just recomputed, a priority of at least
\* that of every thread left in ready_list.
ScheduleDispatchesFreshMax ==
    [][(/\ thread_mlfqs
        /\ \/ last'.op \in {"yield", "block", "exit"}
           \/ last'.op = "tick" /\ thread_ticks + 1 >= TIME_SLICE)
       => \A r \in Range(ready_list') : priority'[cur'] >= priority'[r]]_vars

\* C21 as stated: in MLFQS mode, right after a timer tick whose count is a
\* multiple of 4 the priority of every thread in all_list is the value of the
\* MLFQS formula for its recent_cpu and nice.
TickRecomputesPriorities ==
    [][(thread_mlfqs /\ last'.op = "tick" /\ timer_ticks' % 4 = 0) =>
           \A t \in Range(all_list') :
               priority'[t] = bsd_priority([recent_cpu |-> recent_cpu', nice |-> nice'], t)]_vars

\* C22: in MLFQS mode a timer tick adds 1 to the recent_cpu of the running
\* thread unless that is the idle thread; when the tick count is no multiple
\* of TIMER_FREQ nothing else changes in recent_cpu and load_avg; when it is,
\* load_avg becomes (59/60) * load_avg + (1/60) * (size of ready_list, plus 1
\* if the running thread is not the idle thread), and then the recent_cpu of
\* every thread in all_list becomes (2 * load_avg) / (2 * load_avg + 1) *
\* recent_cpu + nice, for the new load_avg and the recent_cpu just incremented.
TickChargesRecentCpu ==
    [][(thread_mlfqs /\ last'.op = "tick") =>
           LET charged == [t \in Tids |->
                              IF t = cur /\ cur # idle_thread
                              THEN add_fixed_to_int(recent_cpu[t], 1)
                              ELSE recent_cpu[t]]
               count == Len(ready_list) + (IF cur # idle_thread THEN 1 ELSE 0)
               new_load_avg ==
                   add_fixed_to_fixed(
                       multiply_fixed_by_fixed(
                           div_fixed_by_int(convert_to_fixed_point(59), 60), load_avg),
                       multiply_fixed_by_int(
                           div_fixed_by_int(convert_to_fixed_point(1), 60), count))
               coefficient ==
                   div_fixed_by_fixed(multiply_fixed_by_int(new_load_avg, 2),
                                      add_fixed_to_int(multiply_fixed_by_int(new_load_avg, 2), 1))
           IN  IF timer_ticks' % TIMER_FREQ # 0
               THEN recent_cpu' = charged /\ load_avg' = load_avg
               ELSE /\ load_avg' = new_load_avg
                    /\ \A t \in Tids :
                           recent_cpu'[t] =
                               IF InList(all_list, t)
                               THEN add_fixed_to_int(
                                        multiply_fixed_by_fixed(coefficient, charged[t]),
                                        nice[t])
                               ELSE charged[t]]_vars

\* The tick of the full second came with two threads counted: load_avg is
\* positive, the running thread keeps a part of the time it was charged, and
\* a thread with a nice value other than 0 got it added.
TickChargesRecentCpuWitness ==
    /\ thread_mlfqs
    /\ last.op = "tick"
    /\ timer_ticks = TIMER_FREQ
    /\ load_avg = 2 * CDiv(F, 60)
    /\ \E t \in Tids : recent_cpu[t] > 0 /\ nice[t] = 0 /\ recent_cpu[t] < F
    /\ \E t \in Tids : nice[t] # 0 /\ recent_cpu[t] # 0

\* C23 as stated: no timer interrupt comes between the read and the write of
\* an update of a priority, so the priority that thread_set_nice writes is the
\* value of the MLFQS formula in the state it is written in.
PriorityUpdateAtomic ==
    [][/\ last'.op = "tick" => pc[cur] # "nice_computed"
       /\ last'.op = "set_nice_priority" =>
              priority'[last'.by] = bsd_priority(K, last'.by)]_vars

\* C24 as stated: in MLFQS mode a call to thread_donate_priority,
\* thread_remove_donation or thread_reset_priority leaves the priority of
\* every thread as it was, the value last computed by the MLFQS formula.
DonationsInert ==
    [][(thread_mlfqs /\ last'.op \in {"donate_priority", "remove_donation", "reset_priority"})
           => priority' = priority]_vars

\* T waits in lock_acquire for a lock that another thread holds.
BlockedOnHeldLock(t) ==
    /\ status[t] = "BLOCKED"
    /\ wait_lock[t] # NULL
    /\ holder[wait_lock[t]] \notin {NULL, t}

\* The threads whose donations list holds T's donation hook.
DonationLists(t) == {h \in Tids : InList(donations[h], t)}

\* C25 as stated: in non-MLFQS mode, whenever interrupts are enabled, the
\* donation hook of a thread T is linked into the donations list of the holder
\* of T's required lock, and into no other, if T is blocked on a lock that
\* another thread holds, and is detached otherwise.
DonationHookLinkedIffBlocked ==
    (~thread_mlfqs /\ fault = "none" /\ intr_level = "INTR_ON") =>
        \A t \in Tids :
            Live(t) =>
                IF BlockedOnHeldLock(t)
                THEN /\ dona_next[t]
                     /\ required_lock[t] = wait_lock[t]
                     /\ DonationLists(t) = {holder[wait_lock[t]]}
                ELSE ~dona_next[t] /\ DonationLists(t) = {}

\* C25, corrected: in non-MLFQS mode, whenever interrupts are enabled, a thread
\* T whose donation hook is linked is inside lock_acquire for its required
\* lock and not running (blocked, or woken and not yet run again), another
\* thread holds that lock, and the hook is once in that holder's donations
\* list and in no other; a detached hook is in no list.  A thread that has
\* just blocked in lock_acquire on a held lock is linked; after lock_release
\* of a lock every thread that still waits for it is detached, also when
\* another thread holds the lock by then.
DonationHookLinkedOnlyIfBlocked ==
    (~thread_mlfqs /\ fault = "none" /\ intr_level = "INTR_ON") =>
        /\ \A t \in Tids :
               Live(t) =>
                   IF dona_next[t]
                   THEN /\ status[t] \in {"BLOCKED", "READY"}
                        /\ pc[t] = "acquire"
                        /\ required_lock[t] # NULL
                        /\ required_lock[t] = wait_lock[t]
                        /\ holder[required_lock[t]] \notin {NULL, t}
                        /\ DonationLists(t) = {holder[required_lock[t]]}
                        /\ Cardinality({i \in 1 .. Len(donations[holder[required_lock[t]]]) :
                                            donations[holder[required_lock[t]]][i] = t}) = 1
                   ELSE DonationLists(t) = {}
        /\ (last.op = "lock_acquire" /\ last.t # NULL /\ status[last.by] = "BLOCKED"
                /\ holder[last.arg] = last.t)
               => dona_next[last.by]
        /\ last.op = "lock_release" =>
               \A t \in Range(waiters[last.arg]) : ~dona_next[t]

\* Two threads waited for a lock and had donated to its holder; it was
\* released and the woken one holds it and runs; the other still waits for
\* it, blocked on a lock that another thread holds, with its hook detached.
DonationHookLinkedOnlyIfBlockedWitness ==
    /\ ~thread_mlfqs
    /\ fault = "none"
    /\ intr_level = "INTR_ON"
    /\ last.op = "lock_release"
    /\ holder[last.arg] = cur
    /\ cur # last.by
    /\ \E t \in Tids :
           /\ BlockedOnHeldLock(t)
           /\ wait_lock[t] = last.arg
           /\ required_lock[t] = last.arg
           /\ ~dona_next[t]

====
